---- MODULE Spec2Model ----
(***************************************************************************)
(* A model of cogs/dashboard_webhook.py: the DashboardWebhook cog, which   *)
(* relays direct messages to a dashboard webhook and offers two            *)
(* administrator commands.  Each handler invocation is a task of the       *)
(* host's cooperative scheduler; a task's steps are the stretches of code  *)
(* between two points at which the handler waits for the host or for the   *)
(* network.                                                                *)
(***************************************************************************)
EXTENDS Integers, Sequences, FiniteSets, TLC

\* ------------------------------------------------------------------ bounds
\* Number of handler invocations (tasks) in one behaviour.
MaxTasks == 2
\* Longest attachment list of a message of the payload specification.
MaxAttachments == 2

\* ------------------------------------------------------- program constants
DefaultWebhookUrl == "https://qlnbergwjfrmgkjhrbkj.supabase.co/functions/v1/discord-modmail-webhook"
DefaultWebhookSecret == ""
PostTimeout == 10
ProbeTimeout == 5
UrlDisplayLen == 50
ErrorDisplayLen == 50
HttpOk == 200
NoTextContent == "(No text content)"
DefaultContentType == "application/octet-stream"
RelaySuffix == "/discord-modmail-webhook"
HealthSuffix == "/health"
DefaultTestMessage == "Test message from bot"
TestSentText == "Test message sent to dashboard successfully!"
TestFailedText == "Failed to send test message. Check bot logs for details."

\* ------------------------------------------------------------ Python values
\* Python's None, where the other values of the field are strings.
None == "None"
\* Truth value of an Optional[str]: None and the empty string are false.
Truthy(v) == v \notin {None, ""}
\* str(i) of an integer.
Str(i) == ToString(i)
\* s[:n] of a string.
Prefix(s, n) == IF Len(s) <= n THEN s ELSE SubSeq(s, 1, n)

\* s.replace(old, new): every non-overlapping occurrence, left to right.
RECURSIVE Replace(_, _, _)
Replace(s, old, new) ==
    IF Len(s) < Len(old) THEN s
    ELSE IF SubSeq(s, 1, Len(old)) = old
         THEN new \o Replace(SubSeq(s, Len(old) + 1, Len(s)), old, new)
         ELSE SubSeq(s, 1, 1) \o Replace(SubSeq(s, 2, Len(s)), old, new)

\* ------------------------------------------------------ the host's objects
\* discord.User objects the host can hand to the cog.  avatar is the URL of
\* the user's own avatar asset, or None when the user has set none.
Alice == [id |-> 11, name |-> "alice", bot |-> FALSE,
          avatar |-> "https://cdn.test/avatars/11.png",
          default_avatar |-> "https://cdn.test/embed/avatars/1.png"]
Bob == [id |-> 12, name |-> "bob", bot |-> FALSE,
        avatar |-> None,
        default_avatar |-> "https://cdn.test/embed/avatars/2.png"]
Robot == [id |-> 13, name |-> "robot", bot |-> TRUE,
          avatar |-> None,
          default_avatar |-> "https://cdn.test/embed/avatars/3.png"]
Users == {Alice, Bob, Robot}
\* Members who hold the administrator permission the two commands require.
Administrators == {Alice}

\* discord.Attachment objects; content_type is None when none is declared.
Picture == [url |-> "https://cdn.test/att/1", filename |-> "cat.png",
            content_type |-> "image/png", size |-> 2048]
Blob == [url |-> "https://cdn.test/att/2", filename |-> "dump.bin",
         content_type |-> None, size |-> 7]
Attachments == {Picture, Blob}
AttachmentLists(n) == UNION {[1..k -> Attachments] : k \in 0..n}

Channels == {"DMChannel", "TextChannel"}
Contents == {"", "hello"}

\* The messages the host can dispatch to on_message as the event of task t.
\* ctx_valid is what (await bot.get_context(message)).valid will be.
MessagesWith(t, contents, lists) ==
    {[id |-> 100 + t, author |-> u, channel |-> c, ctx_valid |-> v,
      content |-> x, attachments |-> a] :
        u \in Users, c \in Channels, v \in BOOLEAN, x \in contents, a \in lists}
\* Every author, channel and command flag, one body.
Messages(t) == MessagesWith(t, {"hello"}, {<<>>})
\* Every author, channel, command flag, body and attachment list.
AllMessages(t) == MessagesWith(t, Contents, AttachmentLists(MaxAttachments))

\* The command invocations the host can dispatch as the event of task t.
Contexts(t) ==
    {[author |-> u, message_id |-> 100 + t, message |-> m] :
        u \in Administrators, m \in {DefaultTestMessage}}

\* bot.config values and bot.blocked_users.  NoRegistry: the bot object has
\* no attribute blocked_users.
NoRegistry == {-1}
WebhookUrls == {"", DefaultWebhookUrl}
WebhookSecrets == {DefaultWebhookSecret, "s3cr3t", "hunter2"}
SomeWebhookSecrets == {"s3cr3t"}
BlockedRegistries == {NoRegistry, {Bob.id}}

Tasks == 1..MaxTasks

VARIABLES
    session,         \* self.session: "none" (None), "open" or "closed"
    webhook_url,     \* self.webhook_url
    webhook_secret,  \* self.webhook_secret
    blocked_users,   \* bot.blocked_users, or NoRegistry
    tasks            \* the handler invocations, by task

vars == <<session, webhook_url, webhook_secret, blocked_users, tasks>>

\* A task that has not been started.  message, ctx, request, outcome, success
\* and embed hold at most one value.  calls counts the invocations of
\* send_to_dashboard, posts the calls of session.post, wire the requests
\* handed to the transport; caught is the exception the handler's except
\* clauses caught, escaped the one they let through to the host.
IdleTask ==
    [kind |-> "idle", pc |-> "idle", message |-> <<>>, ctx |-> <<>>,
     calls |-> 0, posts |-> 0, wire |-> 0, request |-> <<>>, outcome |-> <<>>,
     caught |-> None, escaped |-> None, success |-> <<>>, log |-> <<>>, embed |-> <<>>,
     sent |-> <<>>]

\* --------------------------------------------------------- the transport
\* Exception classes aiohttp, asyncio and the interpreter raise on the
\* cog's network calls.  ServerTimeoutError derives from both
\* asyncio.TimeoutError and aiohttp.ClientError.
RequestFaults == {"TimeoutError", "ServerTimeoutError", "ClientConnectorError"}
IsTimeoutError(e) == e \in {"TimeoutError", "ServerTimeoutError"}
IsClientError(e) ==
    e \in {"ServerTimeoutError", "ClientConnectorError", "ClientPayloadError",
           "ContentTypeError"}
\* The classes that derive from Exception: all of the above and the two
\* the interpreter and a closed session raise.
IsException(e) ==
    e \in {"TimeoutError", "ServerTimeoutError", "ClientConnectorError",
           "ClientPayloadError", "ContentTypeError", "AttributeError",
           "RuntimeError"}
\* str(e) of the faults.
FaultText(e) ==
    CASE e = "RuntimeError" -> "Session is closed"
      [] e = "AttributeError" -> "'NoneType' object has no attribute 'get'"
      [] e = "ClientConnectorError" ->
            "Cannot connect to host qlnbergwjfrmgkjhrbkj.supabase.co:443 ssl:default"
      [] OTHER -> ""

\* Response bodies.  value is the JSON value the text denotes; complete is
\* FALSE when the connection drops before the body has been read.
TicketBody == [content_type |-> "application/json", text |-> "{'ticket_id': 'T1'}",
               value |-> "object", ticket_id |-> "T1", complete |-> TRUE]
PlainObjectBody == [content_type |-> "application/json", text |-> "{}",
                    value |-> "object", ticket_id |-> None, complete |-> TRUE]
ArrayBody == [content_type |-> "application/json", text |-> "[]",
              value |-> "array", ticket_id |-> None, complete |-> TRUE]
TextBody == [content_type |-> "text/plain", text |-> "oops",
             value |-> "none", ticket_id |-> None, complete |-> TRUE]
CutBody == [content_type |-> "application/json", text |-> "",
            value |-> "none", ticket_id |-> None, complete |-> FALSE]
Bodies == {TicketBody, PlainObjectBody, ArrayBody, TextBody, CutBody}
Statuses == {200, 201, 500}

\* What the transport can answer to a request that reached it: a fault
\* raised by the request, or a response.
PostOutcomes ==
    {[fault |-> f, status |-> 0, body |-> CutBody] : f \in RequestFaults}
    \cup {[fault |-> None, status |-> s, body |-> b] : s \in Statuses, b \in Bodies}
\* A timeout, a success and a refusal.
SomePostOutcomes ==
    {[fault |-> "TimeoutError", status |-> 0, body |-> CutBody],
     [fault |-> None, status |-> 200, body |-> TicketBody],
     [fault |-> None, status |-> 500, body |-> TextBody]}
SomeProbeOutcomes ==
    {[fault |-> "TimeoutError", status |-> 0, body |-> CutBody],
     [fault |-> None, status |-> 200, body |-> TextBody],
     [fault |-> None, status |-> 500, body |-> TextBody]}
ProbeOutcomes ==
    {[fault |-> f, status |-> 0, body |-> CutBody] : f \in RequestFaults}
    \cup {[fault |-> None, status |-> s, body |-> TextBody] : s \in Statuses}

\* await response.json(), then result.get('ticket_id', 'unknown'): the
\* fault raised, or None.
JsonFault(body) ==
    IF ~body.complete THEN "ClientPayloadError"
    ELSE IF body.content_type # "application/json" THEN "ContentTypeError"
    ELSE IF body.value # "object" THEN "AttributeError"
    ELSE None
TicketOf(body) == IF body.ticket_id = None THEN "unknown" ELSE body.ticket_id
\* await response.text(): the fault raised, or None.
TextFault(body) == IF ~body.complete THEN "ClientPayloadError" ELSE None

\* ------------------------------------------------------------ the logger
LogEntry(level, event, status, detail) ==
    [level |-> level, event |-> event, status |-> status, detail |-> detail]

\* -------------------------------------------------- DashboardWebhook, pure
get_avatar_url(user) ==
    IF Truthy(user.avatar) THEN user.avatar ELSE user.default_avatar

\* The declared content type passed on as it is, None included.
format_attachments_no_default(attachments) ==
    [i \in 1..Len(attachments) |->
        [url |-> attachments[i].url,
         filename |-> attachments[i].filename,
         content_type |-> attachments[i].content_type,
         size |-> attachments[i].size]]

format_attachments(attachments) ==
    [i \in 1..Len(attachments) |->
        [url |-> attachments[i].url,
         filename |-> attachments[i].filename,
         content_type |-> IF Truthy(attachments[i].content_type)
                          THEN attachments[i].content_type
                          ELSE DefaultContentType,
         size |-> attachments[i].size]]

\* The clause for aiohttp.ClientError placed before the one for timeouts.
ExceptClause_client_error_first(e) ==
    IF IsClientError(e) THEN LogEntry("error", "request_failed", 0, e)
    ELSE IF IsTimeoutError(e) THEN LogEntry("error", "timed_out", 0, "")
    ELSE LogEntry("error", "unexpected_error", 0, e)

\* The except clauses of send_to_dashboard, in their order: the log entry
\* of the clause that handles fault e.  Every clause returns False.
ExceptClause(e) ==
    IF IsTimeoutError(e) THEN LogEntry("error", "timed_out", 0, "")
    ELSE IF IsClientError(e) THEN LogEntry("error", "request_failed", 0, e)
    ELSE LogEntry("error", "unexpected_error", 0, e)

\* The session is taken to exist without a look at it.
SessionIsSet_unchecked == TRUE

\* `not self.session`: a ClientSession object, open or closed, is true.
SessionIsSet == session # "none"

\* The keyword arguments on_message passes to send_to_dashboard.  The
\* optional attachments argument holds at most one list.
MessageArgs(m) ==
    [discord_user_id |-> Str(m.author.id),
     discord_username |-> m.author.name,
     content |-> IF m.content # "" THEN m.content ELSE NoTextContent,
     discord_avatar_url |-> get_avatar_url(m.author),
     discord_message_id |-> Str(m.id),
     attachments |-> <<format_attachments(m.attachments)>>]

\* The keyword arguments test_dashboard passes; attachments is left None.
TestArgs(c) ==
    [discord_user_id |-> Str(c.author.id),
     discord_username |-> c.author.name \o " (TEST)",
     content |-> "[TEST] " \o c.message,
     discord_avatar_url |-> get_avatar_url(c.author),
     discord_message_id |-> Str(c.message_id),
     attachments |-> <<>>]

Payload(args) ==
    [discord_user_id |-> args.discord_user_id,
     discord_username |-> args.discord_username,
     content |-> args.content,
     discord_avatar_url |-> args.discord_avatar_url,
     discord_message_id |-> args.discord_message_id,
     attachments |-> IF args.attachments = <<>> THEN <<>> ELSE args.attachments[1]]

PostRequest(args) ==
    [method |-> "POST",
     url |-> webhook_url,
     json |-> Payload(args),
     headers |-> [ContentType |-> "application/json",
                  XWebhookSecret |-> webhook_secret],
     timeout |-> PostTimeout]

\* ------------------------------------------------------ the two callers
\* on_message tells the author of a failed delivery.
AfterSend_tells_author(task) ==
    IF task.kind = "on_message"
    THEN [task EXCEPT
            !.pc = "done",
            !.sent = IF task.success = <<FALSE>>
                     THEN Append(@, "Your message could not be delivered.")
                     ELSE @]
    ELSE [task EXCEPT
            !.pc = "done",
            !.sent = Append(@, IF task.success = <<TRUE>>
                               THEN TestSentText
                               ELSE TestFailedText)]

\* What the caller of send_to_dashboard does with the value it returns,
\* up to the end of the handler.
AfterSend(task) ==
    IF task.kind = "on_message"
    THEN [task EXCEPT
            !.pc = "done",
            !.log = IF task.success = <<FALSE>>
                    THEN Append(@, LogEntry("warning", "forward_failed",
                                            task.message[1].author.id,
                                            task.message[1].author.name))
                    ELSE @]
    ELSE [task EXCEPT
            !.pc = "done",
            !.sent = Append(@, IF task.success = <<TRUE>>
                               THEN TestSentText
                               ELSE TestFailedText)]

\* send_to_dashboard returns ok after logging entry; its caller goes on.
Return(task, ok, entry) ==
    AfterSend([task EXCEPT !.success = <<ok>>, !.log = Append(@, entry),
                           !.request = <<>>])

\* A fault no except clause handles ends the handler in the host.
Propagate(task, e) ==
    [task EXCEPT !.escaped = e, !.request = <<>>, !.pc = "raised"]

\* Fault e is raised inside the try block of send_to_dashboard.
Raise(task, e) ==
    IF IsTimeoutError(e) \/ IsClientError(e) \/ IsException(e)
    THEN Return([task EXCEPT !.caught = e], FALSE, ExceptClause(e))
    ELSE Propagate(task, e)

\* send_to_dashboard from its call to its first wait or to its return.
send_to_dashboard(task, args) ==
    LET called == [task EXCEPT !.calls = @ + 1] IN
    IF ~SessionIsSet
    THEN Return(called, FALSE, LogEntry("error", "session_not_initialized", 0, ""))
    ELSE IF ~Truthy(webhook_url)
    THEN Return(called, FALSE, LogEntry("warning", "url_not_configured", 0, ""))
    ELSE LET posted == [called EXCEPT !.posts = @ + 1] IN
         IF session = "closed"
         THEN Raise(posted, "RuntimeError")
         ELSE [posted EXCEPT !.wire = @ + 1, !.request = <<PostRequest(args)>>,
                             !.pc = "post"]

\* A request that raised a fault is sent once more.
PostAnswered_retry(task, o) ==
    LET got == [task EXCEPT !.outcome = <<o>>] IN
    IF o.fault # None /\ task.posts < 2
    THEN [task EXCEPT !.posts = @ + 1, !.wire = @ + 1]
    ELSE IF o.fault # None THEN Raise(got, o.fault)
    ELSE IF o.status = HttpOk
    THEN IF JsonFault(o.body) # None
         THEN Raise(got, JsonFault(o.body))
         ELSE Return(got, TRUE, LogEntry("info", "forwarded", 0, TicketOf(o.body)))
    ELSE IF TextFault(o.body) # None
         THEN Raise(got, TextFault(o.body))
         ELSE Return(got, FALSE, LogEntry("error", "bad_status", o.status, o.body.text))

\* send_to_dashboard from the answer to its POST to its return.
PostAnswered(task, o) ==
    LET got == [task EXCEPT !.outcome = <<o>>] IN
    IF o.fault # None THEN Raise(got, o.fault)
    ELSE IF o.status = HttpOk
    THEN IF JsonFault(o.body) # None
         THEN Raise(got, JsonFault(o.body))
         ELSE Return(got, TRUE, LogEntry("info", "forwarded", 0, TicketOf(o.body)))
    ELSE IF TextFault(o.body) # None
         THEN Raise(got, TextFault(o.body))
         ELSE Return(got, FALSE, LogEntry("error", "bad_status", o.status, o.body.text))

\* ------------------------------------------------------- dashboard_status
Field(name, value, inline) == [name |-> name, value |-> value, inline |-> inline]

\* The report shows the first characters of the secret.
StatusEmbed_shows_secret(url, secret, sess) ==
    [title |-> "Dashboard Webhook Status",
     fields |-> <<
        Field("Webhook URL",
              IF Truthy(url) THEN Prefix(url, UrlDisplayLen) \o "..."
              ELSE "Not configured",
              FALSE),
        Field("Secret Configured",
              IF Truthy(secret) THEN "Yes" ELSE "No", TRUE),
        Field("Session Active",
              IF sess = "open" THEN "Yes, secret " \o Prefix(secret, 4) ELSE "No",
              TRUE)>>]

\* The embed with the three fields dashboard_status always adds, for the
\* configuration and session it reads.  The code fence around the URL and
\* the emoji of the values are left out of the strings.
StatusEmbed(url, secret, sess) ==
    [title |-> "Dashboard Webhook Status",
     fields |-> <<
        Field("Webhook URL",
              IF Truthy(url) THEN Prefix(url, UrlDisplayLen) \o "..."
              ELSE "Not configured",
              FALSE),
        Field("Secret Configured", IF Truthy(secret) THEN "Yes" ELSE "No", TRUE),
        Field("Session Active", IF sess = "open" THEN "Yes" ELSE "No", TRUE)>>]

HealthUrl(url) == Replace(url, RelaySuffix, HealthSuffix)

ProbeRequest ==
    [method |-> "GET", url |-> HealthUrl(webhook_url), timeout |-> ProbeTimeout]

\* Every status below 300 counts as reachable.
StatusField_any_2xx(status) ==
    Field("Connection Test",
          IF status < 300 THEN "Endpoint reachable" ELSE "Status " \o Str(status),
          FALSE)

\* The "Connection Test" field for a response status or for a fault.
StatusField(status) ==
    Field("Connection Test",
          IF status = HttpOk THEN "Endpoint reachable" ELSE "Status " \o Str(status),
          FALSE)
FailedField(e) ==
    Field("Connection Test", "Failed: " \o Prefix(FaultText(e), ErrorDisplayLen), FALSE)

\* embed.add_field(...) on the task's embed.
AddField(task, field) ==
    [task EXCEPT !.embed = <<[@[1] EXCEPT !.fields = Append(@, field)]>>]

\* await ctx.send(embed=embed), the last statement of dashboard_status.
SendEmbed(task) ==
    [task EXCEPT !.sent = Append(@, task.embed[1]), !.request = <<>>, !.pc = "done"]

\* The except clause of the probe: fault e becomes the "Failed" field.
ProbeFailed(task, e) ==
    IF IsException(e)
    THEN SendEmbed(AddField([task EXCEPT !.caught = e], FailedField(e)))
    ELSE Propagate(task, e)

\* dashboard_status from its invocation to the wait for the GET or to its end.
StatusBegin(task) ==
    LET built == [task EXCEPT
                    !.embed = <<StatusEmbed(webhook_url, webhook_secret, session)>>] IN
    IF ~Truthy(webhook_url) THEN SendEmbed(built)
    ELSE IF session = "none" THEN ProbeFailed(built, "AttributeError")
    ELSE IF session = "closed" THEN ProbeFailed(built, "RuntimeError")
    ELSE [built EXCEPT !.wire = @ + 1, !.request = <<ProbeRequest>>, !.pc = "get"]

\* dashboard_status from the answer to its GET to its end.
ProbeAnswered(task, o) ==
    LET got == [task EXCEPT !.outcome = <<o>>] IN
    IF o.fault # None THEN ProbeFailed(got, o.fault)
    ELSE SendEmbed(AddField(got, StatusField(o.status)))

\* ---------------------------------------------------------------- actions
\* The cog after __init__, before the host has loaded it.
Constructed(urls, secrets, registries) ==
    /\ session = "none"
    /\ webhook_url \in urls
    /\ webhook_secret \in secrets
    /\ blocked_users \in registries
    /\ tasks = [t \in Tasks |-> IdleTask]

\* Tasks are numbered in the order in which the host starts them.
CanStart(t) ==
    /\ tasks[t].kind = "idle"
    /\ \A u \in Tasks : u < t => tasks[u].kind # "idle"

config == <<webhook_url, webhook_secret, blocked_users>>

cog_load ==
    /\ session = "none"
    /\ session' = "open"
    /\ UNCHANGED <<config, tasks>>

\* The host unloads a cog it has loaded, once.
cog_unload ==
    /\ session = "open"
    /\ session' = IF SessionIsSet THEN "closed" ELSE session
    /\ UNCHANGED <<config, tasks>>

\* on_message from its invocation to the wait for bot.get_context.
on_message(t, m) ==
    /\ CanStart(t)
    /\ LET task == [IdleTask EXCEPT !.kind = "on_message", !.message = <<m>>] IN
       tasks' = [tasks EXCEPT ![t] =
                    IF m.author.bot THEN [task EXCEPT !.pc = "done"]
                    ELSE IF m.channel # "DMChannel" THEN [task EXCEPT !.pc = "done"]
                    ELSE [task EXCEPT !.pc = "get_context"]]
    /\ UNCHANGED <<session, config>>

\* The registry is searched for the id of the message, not of its author.
IsBlocked_by_message_id(m) == blocked_users # NoRegistry /\ m.id \in blocked_users

IsBlocked(m) == blocked_users # NoRegistry /\ m.author.id \in blocked_users

\* on_message from the context to the wait for the POST or to its end.
on_message_context(t) ==
    /\ tasks[t].kind = "on_message"
    /\ tasks[t].pc = "get_context"
    /\ LET m == tasks[t].message[1] IN
       tasks' = [tasks EXCEPT ![t] =
                    IF m.ctx_valid THEN [@ EXCEPT !.pc = "done"]
                    ELSE IF IsBlocked(m) THEN [@ EXCEPT !.pc = "done"]
                    ELSE send_to_dashboard(@, MessageArgs(m))]
    /\ UNCHANGED <<session, config>>

\* test_dashboard from its invocation to the wait for the POST or to its end.
test_dashboard(t, c) ==
    /\ CanStart(t)
    /\ tasks' = [tasks EXCEPT ![t] =
                    send_to_dashboard(
                        [IdleTask EXCEPT !.kind = "test_dashboard", !.ctx = <<c>>],
                        TestArgs(c))]
    /\ UNCHANGED <<session, config>>

dashboard_status(t, c) ==
    /\ CanStart(t)
    /\ tasks' = [tasks EXCEPT ![t] =
                    StatusBegin([IdleTask EXCEPT !.kind = "dashboard_status",
                                                 !.ctx = <<c>>])]
    /\ UNCHANGED <<session, config>>

\* The transport answers the GET of the probe; dashboard_status finishes.
probe_answered(t, o) ==
    /\ tasks[t].pc = "get"
    /\ tasks' = [tasks EXCEPT ![t] = ProbeAnswered(@, o)]
    /\ UNCHANGED <<session, config>>

\* The transport answers a POST; send_to_dashboard and its caller finish.
post_answered(t, o) ==
    /\ tasks[t].pc = "post"
    /\ tasks' = [tasks EXCEPT ![t] = PostAnswered(@, o)]
    /\ UNCHANGED <<session, config>>

\* Concurrent handlers: MaxTasks invocations, interleaved in every way
\* with each other and with the loading and unloading of the cog.
Init == Constructed(WebhookUrls, SomeWebhookSecrets, BlockedRegistries)

Next ==
    \/ cog_load
    \/ cog_unload
    \/ \E t \in Tasks : \E m \in Messages(t) : on_message(t, m)
    \/ \E t \in Tasks : on_message_context(t)
    \/ \E t \in Tasks : \E c \in Contexts(t) : test_dashboard(t, c)
    \/ \E t \in Tasks : \E o \in SomePostOutcomes : post_answered(t, o)
    \/ \E t \in Tasks : \E c \in Contexts(t) : dashboard_status(t, c)
    \/ \E t \in Tasks : \E o \in SomeProbeOutcomes : probe_answered(t, o)

Spec == Init /\ [][Next]_vars

\* One handler invocation, on every configuration, message and answer of
\* the transport, at any point of the cog's life.
SoloInit == Constructed(WebhookUrls, WebhookSecrets, BlockedRegistries)

SoloNext ==
    \/ cog_load
    \/ cog_unload
    \/ \E m \in AllMessages(1) : on_message(1, m)
    \/ on_message_context(1)
    \/ \E c \in Contexts(1) : test_dashboard(1, c)
    \/ \E o \in PostOutcomes : post_answered(1, o)
    \/ \E c \in Contexts(1) : dashboard_status(1, c)
    \/ \E o \in ProbeOutcomes : probe_answered(1, o)

SoloSpec == SoloInit /\ [][SoloNext]_vars

\* The transport answers every request or lets its timeout expire.
SoloFairSpec ==
    /\ SoloSpec
    /\ WF_vars(\E o \in PostOutcomes : post_answered(1, o))
    /\ WF_vars(\E o \in ProbeOutcomes : probe_answered(1, o))
    /\ WF_vars(on_message_context(1))

\* ----------------------------------------------------------------- claims
IsDone(t) == tasks[t].pc = "done"
MessageTasks == {t \in Tasks : tasks[t].kind = "on_message"}
TestTasks == {t \in Tasks : tasks[t].kind = "test_dashboard"}
StatusTasks == {t \in Tasks : tasks[t].kind = "dashboard_status"}
\* The tasks that have called send_to_dashboard.
SendTasks == {t \in Tasks : tasks[t].calls > 0}

\* The four conditions of the listener's filter, as the claim states them.
PassesFilter(m) ==
    /\ ~m.author.bot
    /\ m.channel = "DMChannel"
    /\ ~m.ctx_valid
    /\ (blocked_users = NoRegistry \/ m.author.id \notin blocked_users)

\* C1: a message that passes the four filter conditions leads to exactly
\* one invocation of send_to_dashboard by the time its handler ends and to
\* at most one before; a message that fails one of them leads to none, however
\* the handlers of concurrent messages interleave.
C1_OneDeliveryPerPassingMessage ==
    \A t \in MessageTasks :
        LET m == tasks[t].message[1] IN
        /\ tasks[t].calls <= 1
        /\ ~PassesFilter(m) => tasks[t].calls = 0
        /\ PassesFilter(m) /\ IsDone(t) => tasks[t].calls = 1
        /\ tasks[t].pc \in {"get_context", "post", "done"}

\* Two handlers have run side by side: one delivered its message, the other
\* dropped the message of a blocked author after waiting for its context.
C1_Witness ==
    \E t, u \in MessageTasks :
        /\ IsDone(t) /\ tasks[t].calls = 1 /\ tasks[t].outcome # <<>>
        /\ IsDone(u) /\ tasks[u].calls = 0
        /\ ~tasks[u].message[1].author.bot
        /\ tasks[u].message[1].channel = "DMChannel"
        /\ ~tasks[u].message[1].ctx_valid
        /\ tasks[u].message[1].author.id \in blocked_users

\* C2: a call of send_to_dashboard made while self.session is None or the
\* endpoint URL is empty returns False in the same step, without a call of
\* session.post and without a request to the transport.
C2_NotConfiguredReturnsFalse ==
    [][\A t \in Tasks :
          /\ tasks'[t].calls = tasks[t].calls + 1
          /\ (session = "none" \/ webhook_url = "")
          => /\ tasks'[t].success = <<FALSE>>
             /\ tasks'[t].posts = 0
             /\ tasks'[t].wire = 0
             /\ tasks'[t].request = <<>>
             /\ tasks'[t].pc = "done"]_vars

\* A message with attachments was handled before the cog's session existed.
C2_Witness ==
    \E t \in MessageTasks :
        /\ IsDone(t) /\ tasks[t].calls = 1 /\ tasks[t].posts = 0
        /\ tasks[t].success = <<FALSE>>
        /\ tasks[t].log[1].event = "session_not_initialized"
        /\ Len(tasks[t].message[1].attachments) = 2

\* C3: when the POST is answered by a response that arrives whole, status
\* 200 makes send_to_dashboard return True whatever the body, and every
\* other status makes it return False and log the bad status with the code
\* and the body text.
C3_StatusDecidesOutcome ==
    \A t \in SendTasks :
        /\ tasks[t].outcome # <<>>
        /\ tasks[t].outcome[1].fault = None
        /\ tasks[t].outcome[1].body.complete
        =>  LET o == tasks[t].outcome[1] IN
            /\ o.status = 200 => tasks[t].success = <<TRUE>>
            /\ o.status # 200 =>
                  /\ tasks[t].success = <<FALSE>>
                  /\ tasks[t].log[1].event = "bad_status"
                  /\ tasks[t].log[1].status = o.status
                  /\ tasks[t].log[1].detail = o.body.text

\* The entry a fault of each kind is to be logged as.
ClassOf(e) ==
    IF e \in {"TimeoutError", "ServerTimeoutError"} THEN "timed_out"
    ELSE IF e \in {"ClientConnectorError", "ClientPayloadError", "ContentTypeError"}
    THEN "request_failed"
    ELSE "unexpected_error"

C4_FaultsBecomeFalse ==
    \A t \in SendTasks :
        /\ tasks[t].pc # "raised"
        /\ tasks[t].escaped = None
        /\ tasks[t].pc = "done" => tasks[t].success \in {<<TRUE>>, <<FALSE>>}
        /\ tasks[t].outcome # <<>> /\ tasks[t].outcome[1].fault # None
              => tasks[t].caught = tasks[t].outcome[1].fault
        /\ tasks[t].caught # None =>
              /\ tasks[t].success = <<FALSE>>
              /\ tasks[t].log[1].event = ClassOf(tasks[t].caught)
              /\ tasks[t].log[1].level = "error"

\* C4: no fault leaves send_to_dashboard: a timeout is logged as a timeout,
\* another client error as a failed request, any other fault as an
\* unexpected error, each with the value False returned; and every
\* invocation returns.
C4_EveryCallReturnsABoolean ==
    /\ []C4_FaultsBecomeFalse
    /\ \A t \in Tasks : (tasks[t].calls = 1) ~> (tasks[t].success # <<>>)

\* A response whose body is not a JSON object made the reading of it fail
\* with a fault that is neither a timeout nor a client error.
C4_Witness ==
    \E t \in SendTasks :
        /\ IsDone(t) /\ tasks[t].success = <<FALSE>>
        /\ tasks[t].caught = "AttributeError"
        /\ tasks[t].outcome # <<>>
        /\ tasks[t].log[1].event = "unexpected_error"

C5_AtMostOnePost ==
    \A t \in Tasks :
        /\ tasks[t].posts <= tasks[t].calls
        /\ tasks[t].wire <= 1
        /\ tasks[t].calls <= 1
        /\ tasks[t].success # <<>> => tasks[t].request = <<>>

\* C5: an invocation of send_to_dashboard calls session.post at most once,
\* so the POSTs never outnumber the invocations, and once the invocation has
\* returned its record is gone: no later step posts for it.
C5_OneAttemptNoRetry ==
    /\ []C5_AtMostOnePost
    /\ [][\A t \in Tasks :
            tasks[t].success # <<>> =>
                /\ tasks'[t].posts = tasks[t].posts
                /\ tasks'[t].wire = tasks[t].wire
                /\ tasks'[t].request = <<>>]_vars

\* A delivery has failed and its handler has ended while another handler's
\* POST is still in flight.
C5_Witness ==
    \E t, u \in Tasks :
        /\ IsDone(t) /\ tasks[t].posts = 1 /\ tasks[t].success = <<FALSE>>
        /\ tasks[t].outcome # <<>>
        /\ tasks[u].pc = "post"

\* C6: on_message sends nothing to anyone, and a failed delivery leaves a
\* warning that names the author; test_dashboard, once ended, has sent one
\* reply, the success text exactly when send_to_dashboard returned True and
\* the failure text otherwise.
C6_OutcomeVisibility ==
    /\ \A t \in MessageTasks :
          /\ tasks[t].sent = <<>>
          /\ IsDone(t) /\ tasks[t].success = <<FALSE>> =>
                LET w == tasks[t].log[Len(tasks[t].log)] IN
                /\ w.level = "warning"
                /\ w.event = "forward_failed"
                /\ w.status = tasks[t].message[1].author.id
                /\ w.detail = tasks[t].message[1].author.name
    /\ \A t \in TestTasks :
          /\ tasks[t].pc \in {"post", "done"}
          /\ tasks[t].pc = "post" => tasks[t].sent = <<>>
          /\ IsDone(t) =>
                /\ Len(tasks[t].sent) = 1
                /\ tasks[t].success = <<TRUE>> =>
                      tasks[t].sent[1] = "Test message sent to dashboard successfully!"
                /\ tasks[t].success # <<TRUE>> =>
                      tasks[t].sent[1] = "Failed to send test message. Check bot logs for details."

\* A test delivery was refused with status 500 and the administrator was told.
C6_Witness ==
    \E t \in TestTasks :
        /\ IsDone(t) /\ tasks[t].success = <<FALSE>>
        /\ tasks[t].outcome # <<>> /\ tasks[t].outcome[1].status = 500
        /\ Len(tasks[t].sent) = 1

C7_RecordMatchesMessage ==
    \A t \in MessageTasks :
        tasks[t].request # <<>> =>
            LET m == tasks[t].message[1]
                r == tasks[t].request[1].json IN
            /\ tasks[t].request[1].method = "POST"
            /\ r.discord_user_id = ToString(m.author.id)
            /\ r.discord_message_id = ToString(m.id)
            /\ r.content = IF m.content = "" THEN "(No text content)" ELSE m.content
            /\ r.discord_avatar_url =
                  IF m.author.avatar = None THEN m.author.default_avatar
                  ELSE m.author.avatar
            /\ r.discord_avatar_url # None
            /\ Len(r.attachments) = Len(m.attachments)
            /\ \A i \in 1..Len(m.attachments) :
                  /\ DOMAIN r.attachments[i] = {"url", "filename", "content_type", "size"}
                  /\ r.attachments[i].url = m.attachments[i].url
                  /\ r.attachments[i].filename = m.attachments[i].filename
                  /\ r.attachments[i].size = m.attachments[i].size
                  /\ r.attachments[i].content_type =
                        IF m.attachments[i].content_type = None
                        THEN "application/octet-stream"
                        ELSE m.attachments[i].content_type

Occurs(s, text) ==
    \E i \in 1..Len(text) :
        i + Len(s) - 1 <= Len(text) /\ SubSeq(text, i, i + Len(s) - 1) = s

\* The "Connection Test" fields of a report, from what its probe met.
ProbeFields(task) ==
    IF webhook_url = "" THEN <<>>
    ELSE IF task.caught # None THEN <<FailedField(task.caught)>>
    ELSE <<StatusField(task.outcome[1].status)>>

\* C8: the report says "Secret Configured: No" for the empty secret and
\* "Yes" otherwise; with a secret set, the report is the one any other
\* non-empty secret would give for the same endpoint, session and probe
\* outcome, and the secret occurs nowhere in it.
C8_ReportHidesSecret ==
    \A t \in StatusTasks :
        IsDone(t) =>
            LET report == tasks[t].sent[1] IN
            /\ report.fields[2].name = "Secret Configured"
            /\ report.fields[2].value = IF webhook_secret = "" THEN "No" ELSE "Yes"
            /\ webhook_secret # "" =>
                  /\ \A other \in WebhookSecrets \ {""} :
                        \E sess \in {"none", "open", "closed"} :
                            report.fields =
                                StatusEmbed(webhook_url, other, sess).fields
                                \o ProbeFields(tasks[t])
                  /\ \A i \in 1..Len(report.fields) :
                        /\ ~Occurs(webhook_secret, report.fields[i].value)
                        /\ ~Occurs(webhook_secret, report.fields[i].name)
                  /\ ~Occurs(webhook_secret, report.title)

\* A report was sent by a cog that holds a secret, after a probe.
C8_Witness ==
    \E t \in StatusTasks :
        /\ IsDone(t) /\ webhook_secret = "hunter2"
        /\ tasks[t].outcome # <<>>
        /\ Len(tasks[t].sent[1].fields) = 4

ConnectionTests(report) ==
    {i \in 1..Len(report.fields) : report.fields[i].name = "Connection Test"}

C9_OneReport ==
    \A t \in StatusTasks :
        /\ tasks[t].pc \in {"get", "done"}
        /\ tasks[t].escaped = None
        /\ tasks[t].pc = "get" => tasks[t].sent = <<>>
        /\ IsDone(t) =>
              LET report == tasks[t].sent[1]
                  answered == tasks[t].outcome # <<>> /\ tasks[t].outcome[1].fault = None
                  entries == ConnectionTests(tasks[t].sent[1]) IN
              /\ Len(tasks[t].sent) = 1
              /\ (entries # {}) <=> (webhook_url # "")
              /\ Cardinality(entries) <= 1
              /\ \A i \in entries :
                    /\ (report.fields[i].value = "Endpoint reachable")
                          <=> (answered /\ tasks[t].outcome[1].status = 200)
                    /\ (answered /\ tasks[t].outcome[1].status # 200)
                          => report.fields[i].value
                                = "Status " \o ToString(tasks[t].outcome[1].status)
                    /\ (SubSeq(report.fields[i].value, 1, 6) = "Status")
                          <=> (answered /\ tasks[t].outcome[1].status # 200)
                    /\ (SubSeq(report.fields[i].value, 1, 6) = "Failed")
                          <=> (tasks[t].caught # None)
                    /\ (tasks[t].caught # None) <=> ~answered

\* C9: dashboard_status ends, in every state of the session and for every
\* outcome of the probe, with exactly one report sent and no fault let
\* through; the report has a connection-test entry exactly when an endpoint
\* is configured, and the entry reads reachable for status 200, the status
\* code for another status, and failed for a fault.
C9_StatusAlwaysReports ==
    /\ []C9_OneReport
    /\ \A t \in Tasks : (tasks[t].kind = "dashboard_status") ~> IsDone(t)

\* A report was sent by a cog whose session was closed: the probe failed
\* without reaching the transport.
C9_Witness ==
    \E t \in StatusTasks :
        /\ IsDone(t) /\ tasks[t].caught = "RuntimeError" /\ tasks[t].wire = 0
        /\ session = "closed"
        /\ Len(tasks[t].sent) = 1

\* C10: session.post is called only while the session is open; a call of
\* send_to_dashboard made once cog_unload has closed the session returns
\* False without calling session.post, as one made before cog_load does.
C10_PostOnlyWhileOpen ==
    [][\A t \in Tasks :
          /\ tasks'[t].posts > tasks[t].posts => session = "open"
          /\ tasks'[t].calls > tasks[t].calls /\ session # "open" =>
                /\ tasks'[t].success = <<FALSE>>
                /\ tasks'[t].posts = 0]_vars

====
